---------------------------- MODULE Spec2Model ----------------------------
(***************************************************************************)
(* One Target of the chromiumoxide Handler (src/src/handler/target.rs),    *)
(* the Page control channel that feeds it (src/src/page.rs) and the        *)
(* CommandChain / FrameManager it drives.  Target::poll, on_response,      *)
(* on_event and the setters are translated from target.rs; CommandChain    *)
(* and FrameManager live in crate::cmd and crate::handler::frame, which    *)
(* are not part of the checked-out sources, and follow sections 4.2 and    *)
(* 4.3 of the specification.                                               *)
(***************************************************************************)
EXTENDS Integers, Sequences, FiniteSets, TLC

\* ------------------------------------------------------------------ bounds
\* Commands one Page submits through the control channel.
MaxCommands == 2
\* Control queries (MainFrame, Url, WaitForNavigation) one Page submits.
MaxQueries == 1
\* Target::goto calls.
MaxGoto == 1
\* RequestTimeouts after which the clock is not followed any further.
MaxTimeouts == 1
\* Page.frameNavigated events of the main frame.
MaxNavigated == 1
\* Calls one Handler dispatches.
MaxCalls == 3

\* --------------------------------------------------------------- constants
\* Per-command timeout of a CommandChain, in clock ticks.
Timeout == 1
\* Deadline of a navigation, in clock ticks after goto.
NavTimeout == 2

\* The Handler's clock.  Instants are kept as offsets from the current clock,
\* so the clock itself reads 0 and a tick moves every stored instant one step
\* towards the past (see Tick).
Now == 0

NoSession == "NoSession"
SessionIds == {"S1", "S2"}
NoFrame == "NoFrame"
FrameIds == {"F0", "F1"}
Urls == {"U0", "U1"}
NoUrl == "NoUrl"
NotFound == "NotFound"

AttachToTarget == "Target.attachToTarget"
GetFrameTree == "Page.getFrameTree"
\* A method no init chain issues (a user command's method).
UserMethod == "DOM.getDocument"

\* TargetInit, in the order of the state machine.
Stages ==
  << "AttachToTarget", "InitializingFrame", "InitializingNetwork",
     "InitializingPage", "InitializingEmulation", "Initialized" >>

StageIndex(s) == CHOOSE i \in 1..Len(Stages) : Stages[i] = s

\* FrameManager::init_commands
FrameInitCommands ==
  << "Page.enable", "Page.getFrameTree", "Page.setLifecycleEventsEnabled",
     "Runtime.enable", "Runtime.runIfWaitingForDebugger" >>

\* NetworkManager::init_commands
NetworkInitCommands == << "Network.enable" >>

\* Target::page_init_commands
page_init_commands ==
  << "Target.setAutoAttach", "Performance.enable", "Log.enable" >>

\* EmulationManager::init_commands
EmulationInitCommands ==
  << "Emulation.setDeviceMetricsOverride", "Emulation.setTouchEmulationEnabled" >>

\* The commands of the chain a stage holds (none for the two end states).
StageCommands(s) ==
  CASE s = "InitializingFrame" -> FrameInitCommands
    [] s = "InitializingNetwork" -> NetworkInitCommands
    [] s = "InitializingPage" -> page_init_commands
    [] s = "InitializingEmulation" -> EmulationInitCommands
    [] OTHER -> << >>

\* All init requests, counted across the four chains in order.
InitOrder ==
  FrameInitCommands \o NetworkInitCommands \o page_init_commands
    \o EmulationInitCommands

\* ------------------------------------------------------------ CommandChain
\* CommandChain::new: deadline = now + timeout * len, cursor = 0.
CommandChainNew(items, t) ==
  [ items |-> items, cursor |-> 0, outstanding |-> FALSE,
    deadline |-> t + Timeout * Len(items), failed |-> FALSE ]

\* The chain of the states that hold none.
NoChain ==
  [ items |-> << >>, cursor |-> 0, outstanding |-> FALSE,
    deadline |-> 0, failed |-> FALSE ]

\* CommandChain::poll(now): Done is Ready(None), Err is
\* Ready(Some(Err(DeadlineExceeded))), Emit is Ready(Some(Ok(method))).
CommandChainPoll(c, t) ==
  IF c.cursor >= Len(c.items) \/ c.failed
    THEN [ res |-> "Done", method |-> "", chain |-> c ]
  ELSE IF t >= c.deadline
    THEN [ res |-> "Err", method |-> "", chain |-> [c EXCEPT !.failed = TRUE] ]
  ELSE IF c.outstanding
    THEN [ res |-> "Pending", method |-> "", chain |-> c ]
  ELSE [ res |-> "Emit", method |-> c.items[c.cursor + 1],
         chain |-> [c EXCEPT !.outstanding = TRUE] ]

\* CommandChain::received_response(method)
CommandChainReceivedResponse(c, m) ==
  IF c.outstanding /\ c.cursor < Len(c.items) /\ c.items[c.cursor + 1] = m
    THEN [c EXCEPT !.cursor = c.cursor + 1, !.outstanding = FALSE]
    ELSE c


\* ------------------------------------------------------------ FrameManager
\* FrameManager::default: no frame, no navigation.
FrameManagerDefault ==
  [ main |-> NoFrame, url |-> NoUrl, loader |-> 0, loaded |-> FALSE,
    nav |-> "none", nav_id |-> 0, nav_loader |-> 0, nav_deadline |-> 0 ]

\* FrameManager::main_frame().map(|f| f.is_loaded()).unwrap_or_default()
MainFrameLoaded(fm) == fm.main # NoFrame /\ fm.loaded

\* FrameManager::on_frame_tree: the snapshot's root becomes the main frame,
\* with the snapshot's url and no lifecycle event seen yet.
on_frame_tree(fm, root, url) ==
  [fm EXCEPT !.main = root, !.url = url, !.loaded = FALSE]

\* FrameManager::on_frame_navigated: url and loader replaced, lifecycle
\* cleared.
on_frame_navigated(fm, f, url) ==
  IF f = fm.main /\ fm.main # NoFrame
    THEN [fm EXCEPT !.url = url, !.loader = fm.loader + 1, !.loaded = FALSE]
    ELSE fm

\* FrameManager::on_frame_navigated_within_document: url without a lifecycle
\* reset.
on_frame_navigated_within_document(fm, f, url) ==
  IF f = fm.main /\ fm.main # NoFrame THEN [fm EXCEPT !.url = url] ELSE fm

\* FrameManager::on_page_lifecycle_event for the `load` event of loader l.
on_page_lifecycle_event(fm, f, l) ==
  IF f = fm.main /\ fm.main # NoFrame /\ l = fm.loader
    THEN [fm EXCEPT !.loaded = TRUE]
    ELSE fm

\* FrameManager::goto: mint a NavigationId and queue the request.
FrameManagerGoto(fm, t) ==
  [fm EXCEPT !.nav = "requested", !.nav_id = fm.nav_id + 1,
             !.nav_loader = fm.loader, !.nav_deadline = t + NavTimeout]

\* TargetEvent / FrameEvent values, all of one shape.
Event(kind, method, session, id) ==
  [ kind |-> kind, method |-> method, session_id |-> session, id |-> id ]

NoEvent == Event("None", "", NoSession, 0)

\* The FrameManager once its navigation is resolved and dropped.
NavigationDone(fm) ==
  [fm EXCEPT !.nav = "none", !.nav_loader = 0, !.nav_deadline = 0]

\* FrameManager::poll(now): the next FrameEvent, if any.
FrameManagerPoll(fm, t) ==
  IF fm.nav = "requested"
    THEN [ fm |-> [fm EXCEPT !.nav = "inflight"],
           ev |-> Event("NavigationRequest", "Page.navigate", NoSession, fm.nav_id) ]
  ELSE IF fm.nav = "inflight" /\ MainFrameLoaded(fm) /\ fm.loader # fm.nav_loader
    THEN [ fm |-> NavigationDone(fm),
           ev |-> Event("NavigationResult", "Ok", NoSession, fm.nav_id) ]
  ELSE IF fm.nav = "inflight" /\ t >= fm.nav_deadline
    THEN [ fm |-> NavigationDone(fm),
           ev |-> Event("NavigationResult", "Err", NoSession, fm.nav_id) ]
  ELSE [ fm |-> fm, ev |-> NoEvent ]

\* ------------------------------------------------------------------ Target
\* The chain a stage starts with, created at time t.
init_commands(stage, t) ==
  IF StageCommands(stage) = << >> THEN NoChain
  ELSE CommandChainNew(StageCommands(stage), t)

\* A faulty successor: the page stage is left out.
NextStageSkip(stage) ==
  CASE stage = "InitializingNetwork" -> "InitializingEmulation"
    [] stage = "InitializingPage" -> "InitializingEmulation"
    [] OTHER -> "Initialized"

\* The state that follows a stage in Target::poll.
NextStage(stage) ==
  CASE stage = "AttachToTarget" -> "InitializingFrame"
    [] stage = "InitializingFrame" -> "InitializingNetwork"
    [] stage = "InitializingNetwork" -> "InitializingPage"
    [] stage = "InitializingPage" -> "InitializingEmulation"
    [] stage = "InitializingEmulation" -> "Initialized"
    [] OTHER -> "Initialized"

\* What a poll returns: the target after it and the event it yields.
Ret(self, ev) == [ self |-> self, ev |-> ev ]

\* A faulty reply: the frame's url as it is, none included.
UrlOrNone(fm) == fm.url

\* What a oneshot reply carries for a loaded main frame:
\* frame.url.clone().ok_or(CdpError::NotFound)
UrlOrNotFound(fm) == IF fm.url = NoUrl THEN NotFound ELSE fm.url

\* tx.send(v) on the oneshot sender of control message id.
Send(replies, id, v) == [replies EXCEPT ![id] = Append(@, v)]

\* Target::create_page: a PageHandle exists once there is a session.
create_page(self) ==
  IF ~self.page /\ self.session_id # NoSession
    THEN [self EXCEPT !.page = TRUE]
    ELSE self

\* A faulty Initialized arm: the Page is handed over without a look at the
\* main frame.
PollInitiatorEager(self) ==
  IF self.initiator
    THEN LET s == create_page(self) IN
         IF s.page
           THEN [s EXCEPT !.initiator = FALSE, !.page_sent = s.page_sent + 1]
           ELSE s
    ELSE self

\* The Initialized arm of Target::poll: hand the Page to the initiator once
\* the main frame has loaded.
PollInitiator(self) ==
  IF self.initiator
    THEN IF MainFrameLoaded(self.frame_manager)
           THEN LET s == create_page(self) IN
                IF s.page
                  THEN [s EXCEPT !.initiator = FALSE,
                                 !.page_sent = s.page_sent + 1]
                  ELSE s
           ELSE self
    ELSE self

\* The head of Target::poll's loop: the parked senders are popped and sent
\* the url once the main frame is loaded.
RECURSIVE ResolveWaiters(_)
ResolveWaiters(self) ==
  IF MainFrameLoaded(self.frame_manager) /\ self.wait_until_frame_loaded # << >>
    THEN LET w == self.wait_until_frame_loaded
             tx == w[Len(w)] IN
         ResolveWaiters(
           [self EXCEPT !.wait_until_frame_loaded = SubSeq(w, 1, Len(w) - 1),
                        !.replies = Send(@, tx, UrlOrNotFound(self.frame_manager))])
    ELSE self

\* A faulty WaitForNavigation arm: the sender is parked whatever the frame's
\* state.
OnWaitForNavigationPark(self, id) ==
  [self EXCEPT !.wait_until_frame_loaded = Append(@, id)]

\* TargetMessage::WaitForNavigation(tx)
OnWaitForNavigation(self, id) ==
  IF MainFrameLoaded(self.frame_manager)
    THEN [self EXCEPT !.replies = Send(@, id, UrlOrNotFound(self.frame_manager))]
    ELSE [self EXCEPT !.wait_until_frame_loaded = Append(@, id)]

\* A faulty receiver: a Command is queued in front (push_front).
OnTargetMessageFront(self, msg) ==
  CASE msg.kind = "Command" ->
         [self EXCEPT !.queued_events =
            << Event("Command", UserMethod, NoSession, msg.id) >> \o @]
    [] msg.kind = "MainFrame" ->
         [self EXCEPT !.replies = Send(@, msg.id, self.frame_manager.main)]
    [] msg.kind = "Url" ->
         [self EXCEPT !.replies = Send(@, msg.id, self.frame_manager.url)]
    [] msg.kind = "WaitForNavigation" -> OnWaitForNavigation(self, msg.id)

\* One TargetMessage read from the PageHandle's receiver.
OnTargetMessage(self, msg) ==
  CASE msg.kind = "Command" ->
         [self EXCEPT !.queued_events =
            Append(@, Event("Command", UserMethod, NoSession, msg.id))]
    [] msg.kind = "MainFrame" ->
         [self EXCEPT !.replies = Send(@, msg.id, self.frame_manager.main)]
    [] msg.kind = "Url" ->
         [self EXCEPT !.replies = Send(@, msg.id, self.frame_manager.url)]
    [] msg.kind = "WaitForNavigation" -> OnWaitForNavigation(self, msg.id)

\* while let Poll::Ready(Some(msg)) = handle.rx.poll_next(cx)
RECURSIVE DrainRx(_)
DrainRx(self) ==
  IF self.page /\ self.rx # << >>
    THEN DrainRx(OnTargetMessage([self EXCEPT !.rx = Tail(@)], Head(self.rx)))
    ELSE self

\* A faulty drain: a NavigationResult of the FrameManager is not queued.
RECURSIVE DrainFrameManagerDrop(_, _)
DrainFrameManagerDrop(self, t) ==
  LET p == FrameManagerPoll(self.frame_manager, t) IN
  IF p.ev = NoEvent THEN self
  ELSE DrainFrameManagerDrop(
         [self EXCEPT !.frame_manager = p.fm,
                      !.queued_events = IF p.ev.kind = "NavigationResult"
                                          THEN @ ELSE Append(@, p.ev)], t)

\* while let Some(event) = self.frame_manager.poll(now)
RECURSIVE DrainFrameManager(_, _)
DrainFrameManager(self, t) ==
  LET p == FrameManagerPoll(self.frame_manager, t) IN
  IF p.ev = NoEvent THEN self
  ELSE DrainFrameManager(
         [self EXCEPT !.frame_manager = p.fm,
                      !.queued_events = Append(@, p.ev)], t)

\* The loop that ends Target::poll.
RECURSIVE PollLoop(_, _)
PollLoop(self, t) ==
  LET s1 == ResolveWaiters(self) IN
  IF s1.queued_events # << >>
    THEN Ret([s1 EXCEPT !.queued_events = Tail(@)], Head(s1.queued_events))
    ELSE LET s2 == DrainFrameManager(DrainRx(s1), t) IN
         IF s2.queued_events = << >> THEN Ret(s2, NoEvent)
         ELSE PollLoop(s2, t)

RECURSIVE poll(_, _)

\* A faulty advance_state!: a chain that is Pending falls through to the loop
\* instead of returning None.
advance_state_fallthrough(self, t, next_state) ==
  LET p == CommandChainPoll(self.cmds, t) IN
  CASE p.res = "Done" ->
         poll([self EXCEPT !.init_state = next_state,
                           !.cmds = init_commands(next_state, t)], t)
    [] p.res = "Emit" ->
         Ret([self EXCEPT !.cmds = p.chain],
             Event("Request", p.method, self.session_id, 0))
    [] p.res = "Err" ->
         Ret([self EXCEPT !.cmds = p.chain],
             Event("RequestTimeout", "", NoSession, 0))
    [] OTHER -> PollLoop(self, t)

\* The advance_state! macro, for the chain of the current stage.
advance_state(self, t, next_state) ==
  LET p == CommandChainPoll(self.cmds, t) IN
  CASE p.res = "Done" ->
         poll([self EXCEPT !.init_state = next_state,
                           !.cmds = init_commands(next_state, t)], t)
    [] p.res = "Emit" ->
         Ret([self EXCEPT !.cmds = p.chain],
             Event("Request", p.method, self.session_id, 0))
    [] p.res = "Err" ->
         Ret([self EXCEPT !.cmds = p.chain],
             Event("RequestTimeout", "", NoSession, 0))
    [] OTHER -> Ret(self, NoEvent)

\* A faulty AttachToTarget arm: the request is yielded and the state kept.
PollAttachToTargetStay(self, t) ==
  Ret(self, Event("Request", AttachToTarget, NoSession, 0))

\* The AttachToTarget arm of Target::poll.
PollAttachToTarget(self, t) ==
  Ret([self EXCEPT !.init_state = "InitializingFrame",
                   !.cmds = init_commands("InitializingFrame", t)],
      Event("Request", AttachToTarget, NoSession, 0))

\* A faulty InitializingFrame arm: without a session the target goes back to
\* AttachToTarget, to ask again.
PollInitializingFrameRetry(self, t) ==
  IF self.session_id = NoSession
    THEN Ret([self EXCEPT !.init_state = "AttachToTarget", !.cmds = NoChain],
             NoEvent)
  ELSE advance_state(self, t, "InitializingNetwork")

\* A faulty InitializingFrame arm: without a session the chain is polled all
\* the same, for its deadline only.
PollInitializingFrameDeadline(self, t) ==
  IF self.session_id = NoSession
    THEN LET p == CommandChainPoll(self.cmds, t) IN
         IF p.res = "Err"
           THEN Ret([self EXCEPT !.cmds = p.chain],
                    Event("RequestTimeout", "", NoSession, 0))
           ELSE Ret(self, NoEvent)
  ELSE advance_state(self, t, "InitializingNetwork")

\* A faulty InitializingFrame arm: the chain is driven without a session.
PollInitializingFrameNoSession(self, t) ==
  advance_state(self, t, "InitializingNetwork")

\* The InitializingFrame arm of Target::poll.
PollInitializingFrame(self, t) ==
  IF self.session_id = NoSession THEN Ret(self, NoEvent)
  ELSE advance_state(self, t, "InitializingNetwork")

\* A faulty poll: the initialize flag is not consulted.
poll_unasked(self, t) ==
  CASE self.init_state = "AttachToTarget" -> PollAttachToTarget(self, t)
    [] self.init_state = "InitializingFrame" -> PollInitializingFrame(self, t)
    [] self.init_state = "Initialized" -> PollLoop(PollInitiator(self), t)
    [] OTHER -> advance_state(self, t, NextStage(self.init_state))

\* Target::poll(cx, now)
poll(self, t) ==
  IF ~self.initialize THEN Ret(self, NoEvent)
  ELSE CASE self.init_state = "AttachToTarget" -> PollAttachToTarget(self, t)
         [] self.init_state = "InitializingFrame" -> PollInitializingFrame(self, t)
         [] self.init_state = "Initialized" -> PollLoop(PollInitiator(self), t)
         [] OTHER -> advance_state(self, t, NextStage(self.init_state))

\* TargetInit::commands_mut: whether the state holds a CommandChain.
commands_mut(init_state) ==
  init_state \in { "InitializingFrame", "InitializingNetwork",
                   "InitializingPage", "InitializingEmulation" }

\* A faulty on_response: the frame tree of Page.getFrameTree is dropped.
on_response_no_tree(self, method, result, root, url) ==
  IF commands_mut(self.init_state)
    THEN [self EXCEPT !.cmds = CommandChainReceivedResponse(@, method)]
    ELSE self

\* A faulty on_response: a Page.getFrameTree response feeds the FrameManager
\* whatever it carries (a default tree for an error or a missing result).
on_response_any_result(self, method, result, root, url) ==
  LET s == IF commands_mut(self.init_state)
             THEN [self EXCEPT !.cmds = CommandChainReceivedResponse(@, method)]
             ELSE self IN
  IF method = GetFrameTree
    THEN [s EXCEPT !.frame_manager = on_frame_tree(@, root, url)]
    ELSE s

\* A faulty on_response: only a response with a parseable result is passed
\* to the init chain.
on_response_ok_only(self, method, result, root, url) ==
  LET s == IF commands_mut(self.init_state) /\ result = "ok"
             THEN [self EXCEPT !.cmds = CommandChainReceivedResponse(@, method)]
             ELSE self IN
  IF method = GetFrameTree /\ result = "ok"
    THEN [s EXCEPT !.frame_manager = on_frame_tree(@, root, url)]
    ELSE s

\* A faulty on_response: any response is taken for the answer to the chain's
\* current command.
on_response_any(self, method, result, root, url) ==
  LET c == self.cmds
      s == IF commands_mut(self.init_state) /\ c.cursor < Len(c.items)
             THEN [self EXCEPT !.cmds =
                     CommandChainReceivedResponse(@, c.items[c.cursor + 1])]
             ELSE self IN
  IF method = GetFrameTree /\ result = "ok"
    THEN [s EXCEPT !.frame_manager = on_frame_tree(@, root, url)]
    ELSE s

\* Target::on_response(resp, method): result is "ok" for a parseable result,
\* "error" for a protocol error, "bad" for a missing or unparseable one.
on_response(self, method, result, root, url) ==
  LET s == IF commands_mut(self.init_state)
             THEN [self EXCEPT !.cmds = CommandChainReceivedResponse(@, method)]
             ELSE self IN
  IF method = GetFrameTree /\ result = "ok"
    THEN [s EXCEPT !.frame_manager = on_frame_tree(@, root, url)]
    ELSE s

\* NetworkManager: the request ids it tracks.
NetworkManagerDefault == {}

\* The CdpEvent kinds Target::on_event is given here.
FrameEventNames ==
  { "PageFrameNavigated", "PageNavigatedWithinDocument", "PageLifecycleEvent",
    "PageFrameStartedLoading" }

\* The CdpEvent variants Target::on_event hands to the FrameManager.
FrameManagerEvents ==
  { "PageFrameAttached", "PageFrameDetached", "PageFrameNavigated",
    "PageNavigatedWithinDocument", "RuntimeExecutionContextCreated",
    "RuntimeExecutionContextDestroyed", "RuntimeExecutionContextsCleared",
    "PageLifecycleEvent", "PageFrameStartedLoading" }

\* The CdpEvent variants Target::on_event hands to the NetworkManager.
NetworkManagerEvents ==
  { "FetchRequestPaused", "FetchAuthRequired", "NetworkRequestWillBeSent",
    "NetworkRequestServedFromCache", "NetworkResponseReceived",
    "NetworkLoadingFinished", "NetworkLoadingFailed" }

\* A faulty on_event: a Network event that ends a request is also taken for
\* the end of the main frame's load.
on_event_both(self, ev) ==
  CASE ev.name = "PageFrameNavigated" ->
         [self EXCEPT !.frame_manager = on_frame_navigated(@, ev.frame, ev.url)]
    [] ev.name = "PageNavigatedWithinDocument" ->
         [self EXCEPT !.frame_manager =
            on_frame_navigated_within_document(@, ev.frame, ev.url)]
    [] ev.name = "PageLifecycleEvent" ->
         [self EXCEPT !.frame_manager =
            on_page_lifecycle_event(@, ev.frame, ev.loader)]
    [] ev.name = "NetworkRequestWillBeSent" ->
         [self EXCEPT !.network_manager = @ \cup {"R1"}]
    [] ev.name \in { "NetworkLoadingFinished", "NetworkLoadingFailed" } ->
         [self EXCEPT !.network_manager = @ \ {"R1"},
                      !.frame_manager =
                         on_page_lifecycle_event(@, @.main, @.loader)]
    [] OTHER -> self

\* Target::on_event(event): ev is [name, frame, url, loader].  The
\* FrameManager here holds the main frame only and the NetworkManager the ids
\* of the requests in flight: the events about child frames and execution
\* contexts, and those about a request's response or interception, reach
\* their manager and find nothing of it to change.
on_event(self, ev) ==
  CASE ev.name = "PageFrameAttached" -> self
    [] ev.name = "PageFrameDetached" -> self
    [] ev.name = "PageFrameNavigated" ->
         [self EXCEPT !.frame_manager = on_frame_navigated(@, ev.frame, ev.url)]
    [] ev.name = "PageNavigatedWithinDocument" ->
         [self EXCEPT !.frame_manager =
            on_frame_navigated_within_document(@, ev.frame, ev.url)]
    [] ev.name = "RuntimeExecutionContextCreated" -> self
    [] ev.name = "RuntimeExecutionContextDestroyed" -> self
    [] ev.name = "RuntimeExecutionContextsCleared" -> self
    [] ev.name = "PageLifecycleEvent" ->
         [self EXCEPT !.frame_manager =
            on_page_lifecycle_event(@, ev.frame, ev.loader)]
    [] ev.name = "PageFrameStartedLoading" -> self
    [] ev.name = "FetchRequestPaused" -> self
    [] ev.name = "FetchAuthRequired" -> self
    [] ev.name = "NetworkRequestWillBeSent" ->
         [self EXCEPT !.network_manager = @ \cup {"R1"}]
    [] ev.name = "NetworkRequestServedFromCache" -> self
    [] ev.name = "NetworkResponseReceived" -> self
    [] ev.name = "NetworkLoadingFinished" ->
         [self EXCEPT !.network_manager = @ \ {"R1"}]
    [] ev.name = "NetworkLoadingFailed" ->
         [self EXCEPT !.network_manager = @ \ {"R1"}]
    [] OTHER -> self

\* -------------------------------------------------------------- wire types
\* Strings the code inspects are sequences of characters.
StartsWith(str, prefix) ==
  Len(str) >= Len(prefix) /\ SubSeq(str, 1, Len(prefix)) = prefix

\* str::split('.'): the pieces between the dots, in order.
RECURSIVE SplitDot(_)
SplitDot(str) ==
  IF \E i \in 1..Len(str) : str[i] = "."
    THEN LET i == CHOOSE k \in 1..Len(str) :
                    str[k] = "." /\ \A j \in 1..(k - 1) : str[j] # "."
         IN << SubSeq(str, 1, i - 1) >> \o SplitDot(SubSeq(str, i + 1, Len(str)))
    ELSE << str >>

\* Method::split: (iter.next().unwrap(), iter.next().unwrap())
split(identifier) ==
  << SplitDot(identifier)[1], SplitDot(identifier)[2] >>

\* Method::domain_name
domain_name(identifier) == split(identifier)[1]

\* Method::method_name
method_name(identifier) == split(identifier)[2]

\* Identifiers of commands: DOM.removeNode, Page.navigate, Log.enable.
Identifiers ==
  { << "D", "O", "M", ".", "r", "e", "m", "o", "v", "e", "N", "o", "d", "e" >>,
    << "P", "a", "g", "e", ".", "n", "a", "v", "i", "g", "a", "t", "e" >>,
    << "L", "o", "g", ".", "e", "n", "a", "b", "l", "e" >> }

\* Serialized parameters of a command.
ParamValues == { "{}", "{..}" }

\* Command::create_call(call_id) for a command [identifier, params].
create_call(cmd, call_id) ==
  [ id |-> call_id, method |-> method_name(cmd.identifier),
    params |-> cmd.params ]

\* A field a JSON object does not have.
Absent == "Absent"

\* The `id` of a JSON object that has none, and of a result that is no
\* response.
NoId == 0 - 1

\* The `params` objects of inbound messages, with or without a sessionId
\* member; NoParams stands for a message without `params`.
ParamObjects ==
  { [ present |-> TRUE, sessionId |-> x ] : x \in {Absent} \cup SessionIds }
NoParams == [ present |-> FALSE, sessionId |-> Absent ]

\* Inbound JSON objects, by the fields the code looks at.
JsonMessages ==
  [ id : {NoId, 7}, method : {Absent, "Page.frameNavigated"},
    params : {NoParams} \cup ParamObjects, result : {Absent, "{}"},
    error : {Absent, "err"}, sessionId : {Absent} \cup SessionIds ]

\* The Err of a failed deserialization.
DataError == [ variant |-> "Err" ]

\* #[derive(Deserialize)] for CdpEvent: `method` and `params` are required,
\* the other members of the object are ignored.
DeserializeCdpEvent(json) ==
  IF json.method # Absent /\ json.params # NoParams
    THEN [ variant |-> "Event", method |-> json.method, params |-> json.params ]
    ELSE DataError

\* #[derive(Deserialize)] for Response: `id` is required, `result` and
\* `error` are options.
DeserializeResponse(json) ==
  IF json.id # NoId
    THEN [ variant |-> "Response", id |-> json.id, result |-> json.result,
           error |-> json.error ]
    ELSE DataError

\* #[serde(untagged)] enum Message { Event(T), Response(Response) }: the
\* first variant that deserializes, in declaration order.
DeserializeMessage(json) ==
  IF DeserializeCdpEvent(json) # DataError THEN DeserializeCdpEvent(json)
  ELSE DeserializeResponse(json)

\* <CdpEvent as Event>::session_id:
\* self.params.get("sessionId").and_then(|x| x.as_str())
event_session_id(event) == event.params.sessionId

\* -------------------------------------------------------------------- Page
AboutBlank == << "a", "b", "o", "u", "t", ":", "b", "l", "a", "n", "k" >>
DataPrefix == << "d", "a", "t", "a", ":" >>
HttpPrefix == << "h", "t", "t", "p" >>

\* The urls a cookie or a page is given: about:blank, data:,x, http://x,
\* https://x and file:///x.
CookieUrls ==
  { AboutBlank,
    DataPrefix \o << ",", "x" >>,
    HttpPrefix \o << ":", "/", "/", "x" >>,
    HttpPrefix \o << "s", ":", "/", "/", "x" >>,
    << "f", "i", "l", "e", ":", "/", "/", "/", "x" >> }

\* The url of a cookie that has none, and of a page without a main frame
\* url (Option::None).
NoneUrl == << >>

\* validate_cookie_url(url): "Ok" or the message of the CdpError.
validate_cookie_url(url) ==
  IF StartsWith(url, DataPrefix) THEN "Data URL page can not have cookie"
  ELSE IF url # AboutBlank THEN "Blank page can not have cookie"
  ELSE "Ok"

\* What Page::execute resolves to for one command.
ExecuteResults == { "Ok", "Err" }

\* A faulty set_cookie: SetCookies is issued whatever DeleteCookies resolved
\* to.
set_cookie_unawaited(cookie_url, url_result, page_url, delete_result, set_result) ==
  LET failed(e) == [ result |-> e, issued |-> << >> ]
      run(url) ==
        [ result |-> set_result,
          issued |-> << [ method |-> "Network.deleteCookies", url |-> url ],
                        [ method |-> "Network.setCookies", url |-> url ] >> ]
  IN
  IF cookie_url # NoneUrl
    THEN IF validate_cookie_url(cookie_url) # "Ok"
           THEN failed(validate_cookie_url(cookie_url))
           ELSE run(cookie_url)
  ELSE IF url_result # "Ok" THEN failed("Err")
  ELSE IF page_url = NoneUrl THEN failed("Page url not found")
  ELSE IF validate_cookie_url(page_url) # "Ok"
         THEN failed(validate_cookie_url(page_url))
  ELSE IF StartsWith(page_url, HttpPrefix) THEN run(page_url)
  ELSE run(NoneUrl)

\* Page::set_cookie(cookie): cookie_url is cookie.url, url_result and
\* page_url what Page::url() resolves to (Err, or Ok of page_url),
\* delete_result and set_result what the two commands resolve to.  Gives the
\* result and the commands issued, each with the url of the cookie it
\* carries.
set_cookie(cookie_url, url_result, page_url, delete_result, set_result) ==
  LET failed(e) == [ result |-> e, issued |-> << >> ]
      run(url) ==
        IF delete_result # "Ok"
          THEN [ result |-> "Err",
                 issued |-> << [ method |-> "Network.deleteCookies", url |-> url ] >> ]
          ELSE [ result |-> set_result,
                 issued |-> << [ method |-> "Network.deleteCookies", url |-> url ],
                               [ method |-> "Network.setCookies", url |-> url ] >> ]
  IN
  IF cookie_url # NoneUrl
    THEN IF validate_cookie_url(cookie_url) # "Ok"
           THEN failed(validate_cookie_url(cookie_url))
           ELSE run(cookie_url)
  ELSE IF url_result # "Ok" THEN failed("Err")
  ELSE IF page_url = NoneUrl THEN failed("Page url not found")
  ELSE IF validate_cookie_url(page_url) # "Ok"
         THEN failed(validate_cookie_url(page_url))
  ELSE IF StartsWith(page_url, HttpPrefix) THEN run(page_url)
  ELSE run(NoneUrl)

\* No call made yet.
NoCall == [ fn |-> "none" ]

\* ----------------------------------------------------------------- Handler
\* The waiters of user commands (reply channels); NoWaiter is the waiter of
\* an internal call (waiter = None).
Waiters == 1..MaxCalls
NoWaiter == 0

\* What a waiter is failed with when the transport closes.
TransportClosed == [ id |-> NoId, result |-> "TransportClosed" ]

\* The Handler at start: no CallId allocated, nothing pending, the transport
\* up.  `sent` lists the ids written to the transport, `assigned` the id
\* each waiter was registered under, `results` what each waiter received.
HandlerNew ==
  [ next_id |-> 0, pending |-> {}, sent |-> << >>,
    assigned |-> [ w \in Waiters |-> NoId ],
    results |-> [ w \in Waiters |-> << >> ],
    transport |-> "open", terminated |-> FALSE ]

\* A faulty response lookup: the response goes to the oldest pending call.
Lookup_oldest(h, id) ==
  { p \in h.pending : \A q \in h.pending : p.id <= q.id }

\* The pending call registered under a CallId (none for an unknown id).
Lookup(h, id) == { p \in h.pending : p.id = id }

\* Dispatch of a Command or Request: allocate the CallId, record the waiter,
\* write the frame.
submit(h, waiter) ==
  [ h EXCEPT !.next_id = h.next_id + 1,
             !.pending = h.pending \cup { [ id |-> h.next_id, waiter |-> waiter ] },
             !.sent = Append(h.sent, h.next_id),
             !.assigned = IF waiter = NoWaiter THEN h.assigned
                          ELSE [ h.assigned EXCEPT ![waiter] = h.next_id ] ]

\* An inbound Response: look up the waiter by CallId, remove it, deliver the
\* result; an unmatched response is dropped.
on_handler_response(h, resp) ==
  IF Lookup(h, resp.id) = {} THEN h
  ELSE LET p == CHOOSE x \in Lookup(h, resp.id) : TRUE IN
       [ h EXCEPT !.pending = h.pending \ {p},
                  !.results = IF p.waiter = NoWaiter THEN h.results
                              ELSE [ h.results EXCEPT ![p.waiter] = Append(@, resp) ] ]

\* A faulty close: the table is cleared and the waiters are told nothing.
on_transport_closed_silent(h) ==
  [ h EXCEPT !.pending = {}, !.transport = "closed", !.terminated = TRUE ]

\* The transport closes: every pending waiter is failed with
\* transport-closed and the Handler terminates.
on_transport_closed(h) ==
  [ h EXCEPT !.pending = {},
             !.results = [ w \in Waiters |->
                             IF \E p \in h.pending : p.waiter = w
                               THEN Append(h.results[w], TransportClosed)
                               ELSE h.results[w] ],
             !.transport = "closed", !.terminated = TRUE ]


\* ------------------------------------------------------------------- state
VARIABLES
  \* Target's fields
  initialize, init_state, cmds, session_id, page, rx, queued_events,
  wait_until_frame_loaded, initiator, is_closed, frame_manager,
  network_manager,
  \* the receiving ends of the oneshot channels: per control message the
  \* values sent to it, and how often the initiator was sent its Page
  replies, page_sent,
  \* the return value of the last call (Idle when the last call was not a
  \* poll)
  out,
  \* the record of the run: the control messages sent so far (by id), the
  \* init requests and commands poll yielded, the methods answered, how many
  \* RequestTimeouts were yielded, per control message the url of the main
  \* frame's last frameNavigated since it was sent, and whether the clock
  \* reached the deadline of a chain with one of its requests unanswered
  msgs, init_sent, acked, timeouts, cmds_yielded, nav_since, late_chain,
  \* the call a client of the library has made outside the Target (a method
  \* of Page, a function of the wire types) with what it returned so far
  call,
  \* the Handler's table of CallIds and waiters
  handler

vars ==
  << initialize, init_state, cmds, session_id, page, rx, queued_events,
     wait_until_frame_loaded, initiator, is_closed, frame_manager,
     network_manager, replies, page_sent, out, msgs, init_sent, acked,
     timeouts, cmds_yielded, nav_since, late_chain, call, handler >>

history ==
  << msgs, init_sent, acked, timeouts, cmds_yielded, nav_since, late_chain >>

Idle == Event("Idle", "", NoSession, 0)

\* The Target's fields with the record of its run.
target ==
  << initialize, init_state, cmds, session_id, page, rx, queued_events,
     wait_until_frame_loaded, initiator, is_closed, frame_manager,
     network_manager, replies, page_sent, out, msgs, init_sent, acked,
     timeouts, cmds_yielded, nav_since, late_chain >>

MsgIds == 1..(MaxCommands + MaxQueries)
MsgKinds == { "Command", "MainFrame", "Url", "WaitForNavigation" }

\* How many of the messages sent are of one of the kinds.
Count(sent, kinds) == Cardinality({ i \in 1..Len(sent) : sent[i] \in kinds })

\* The Target as one record.
Self ==
  [ initialize |-> initialize, init_state |-> init_state, cmds |-> cmds,
    session_id |-> session_id, page |-> page, rx |-> rx,
    queued_events |-> queued_events,
    wait_until_frame_loaded |-> wait_until_frame_loaded,
    initiator |-> initiator, is_closed |-> is_closed,
    frame_manager |-> frame_manager, network_manager |-> network_manager,
    replies |-> replies, page_sent |-> page_sent ]

\* The Target becomes s.
Becomes(s) ==
  /\ initialize' = s.initialize
  /\ init_state' = s.init_state
  /\ cmds' = s.cmds
  /\ session_id' = s.session_id
  /\ page' = s.page
  /\ rx' = s.rx
  /\ queued_events' = s.queued_events
  /\ wait_until_frame_loaded' = s.wait_until_frame_loaded
  /\ initiator' = s.initiator
  /\ is_closed' = s.is_closed
  /\ frame_manager' = s.frame_manager
  /\ network_manager' = s.network_manager
  /\ replies' = s.replies
  /\ page_sent' = s.page_sent

\* Target::new(info)
Init ==
  /\ initialize = FALSE
  /\ init_state = "AttachToTarget"
  /\ cmds = NoChain
  /\ session_id = NoSession
  /\ page = FALSE
  /\ rx = << >>
  /\ queued_events = << >>
  /\ wait_until_frame_loaded = << >>
  /\ initiator = FALSE
  /\ is_closed = FALSE
  /\ frame_manager = FrameManagerDefault
  /\ network_manager = NetworkManagerDefault
  /\ replies = [i \in MsgIds |-> << >>]
  /\ page_sent = 0
  /\ out = Idle
  /\ msgs = << >>
  /\ init_sent = << >>
  /\ acked = {}
  /\ timeouts = 0
  /\ cmds_yielded = << >>
  /\ nav_since = [i \in MsgIds |-> NoUrl]
  /\ late_chain = FALSE
  /\ call = NoCall
  /\ handler = HandlerNew

\* ----------------------------------------------------------------- actions
\* Target::initialize()
Initialize ==
  /\ Becomes([Self EXCEPT !.initialize = TRUE])
  /\ out' = Idle
  /\ UNCHANGED << call, handler >>
  /\ UNCHANGED history

\* Target::set_initiator(tx)
SetInitiator ==
  /\ ~initiator /\ page_sent = 0
  /\ Becomes([Self EXCEPT !.initiator = TRUE, !.initialize = TRUE])
  /\ out' = Idle
  /\ UNCHANGED << call, handler >>
  /\ UNCHANGED history

\* Target::set_session_id(id)
SetSessionId ==
  \E id \in SessionIds :
    /\ Becomes([Self EXCEPT !.session_id = id])
    /\ out' = Idle
    /\ UNCHANGED << call, handler >>
    /\ UNCHANGED history

\* Target::get_or_create_page()
GetOrCreatePage ==
  /\ Becomes(create_page(Self))
  /\ out' = Idle
  /\ UNCHANGED << call, handler >>
  /\ UNCHANGED history

\* Target::poll(cx, now), called by the Handler in its pass.
Poll ==
  LET r == poll(Self, Now) IN
  /\ Becomes(r.self)
  /\ out' = r.ev
  /\ UNCHANGED << call, handler >>
  /\ init_sent' = IF r.ev.kind = "Request" /\ r.ev.method # AttachToTarget
                    THEN Append(init_sent, r.ev.method) ELSE init_sent
  /\ timeouts' = IF r.ev.kind = "RequestTimeout" THEN timeouts + 1
                  ELSE timeouts
  /\ cmds_yielded' = IF r.ev.kind = "Command"
                       THEN Append(cmds_yielded, r.ev.id) ELSE cmds_yielded
  /\ UNCHANGED << msgs, acked, nav_since, late_chain >>

\* The methods on_response is called with: the one the chain waits for, one
\* of a chain that is not waited for, and a user command's.
ResponseMethods ==
  {GetFrameTree, UserMethod}
    \cup (IF commands_mut(init_state) /\ cmds.cursor < Len(cmds.items)
            THEN {cmds.items[cmds.cursor + 1]} ELSE {})

\* Target::on_response(resp, method), for any method and outcome.
OnResponse ==
  \E method \in ResponseMethods, result \in {"ok", "error", "bad"},
     root \in {"F0"}, url \in Urls :
    /\ (method # GetFrameTree \/ result # "ok") => (root = "F0" /\ url = "U0")
    /\ Becomes(on_response(Self, method, result, root, url))
    /\ acked' = IF \E i \in 1..Len(init_sent) : init_sent[i] = method
                  THEN acked \cup {method} ELSE acked
    /\ out' = Idle
    /\ UNCHANGED << call, handler >>
    /\ UNCHANGED << msgs, init_sent, timeouts, cmds_yielded,
                    nav_since, late_chain >>

\* Target::on_event(event)
OnEvent ==
  \E name \in FrameEventNames \cup {"Other"}, frame \in FrameIds,
     url \in Urls, loader \in 0..MaxNavigated :
    LET ev == [ name |-> name, frame |-> frame, url |-> url, loader |-> loader ]
        hit == name = "PageFrameNavigated" /\ frame = frame_manager.main IN
    /\ hit => frame_manager.loader < MaxNavigated
    /\ name \notin { "PageFrameNavigated", "PageNavigatedWithinDocument" }
         => url = "U0"
    /\ name # "PageLifecycleEvent" => loader = 0
    /\ name = "Other" => frame = "F0"
    /\ Becomes(on_event(Self, ev))
    /\ nav_since' = [ i \in MsgIds |->
                        IF hit /\ i <= Len(msgs) /\ replies[i] = << >>
                          THEN url ELSE nav_since[i] ]
    /\ out' = Idle
    /\ UNCHANGED << call, handler >>
    /\ UNCHANGED << msgs, init_sent, acked, timeouts, cmds_yielded,
                    late_chain >>

\* Target::goto(req)
Goto ==
  /\ frame_manager.nav_id < MaxGoto
  /\ frame_manager.nav = "none"
  /\ Becomes([Self EXCEPT !.frame_manager = FrameManagerGoto(@, Now)])
  /\ out' = Idle
  /\ UNCHANGED << call, handler >>
  /\ UNCHANGED history

\* A Page sends a TargetMessage through the sender of its PageInner:
\* Page::execute, Page::mainframe, Page::url, Page::wait_for_navigation.
Submit ==
  \E kind \in MsgKinds :
    /\ page
    /\ IF kind = "Command" THEN Count(msgs, {"Command"}) < MaxCommands
       ELSE Count(msgs, MsgKinds \ {"Command"}) < MaxQueries
    /\ Becomes([Self EXCEPT !.rx = Append(@, [kind |-> kind, id |-> Len(msgs) + 1])])
    /\ msgs' = Append(msgs, kind)
    /\ out' = Idle
    /\ UNCHANGED << call, handler >>
    /\ UNCHANGED << init_sent, acked, timeouts, cmds_yielded,
                    nav_since, late_chain >>

\* An instant seen d ticks later.
Later(instant, d) == IF instant > d THEN instant - d ELSE 0

\* The deadlines the target holds that are still ahead.
Deadlines ==
  (IF commands_mut(init_state) /\ cmds.deadline > 0 THEN {cmds.deadline} ELSE {})
    \cup (IF frame_manager.nav # "none" /\ frame_manager.nav_deadline > 0
            THEN {frame_manager.nav_deadline} ELSE {})

\* The target d ticks later.
Ticked(self, d) ==
  [self EXCEPT !.cmds.deadline = Later(@, d),
               !.frame_manager.nav_deadline = Later(@, d)]

\* Time passes, up to the next deadline ahead.
Tick ==
  /\ Deadlines # {}
  /\ timeouts < MaxTimeouts
  /\ LET d == CHOOSE x \in Deadlines : \A y \in Deadlines : x <= y IN
     Becomes(Ticked(Self, d))
  /\ out' = Idle
  /\ UNCHANGED << call, handler >>
  /\ UNCHANGED history

\* Time passes for an initialized target: the deadline of a navigation.
TickInitialized ==
  /\ init_state = "Initialized"
  /\ Tick

\* The browser answers the init request that is outstanding: a result the
\* Target can parse, for Page.getFrameTree a tree rooted at F0.
Answer ==
  /\ commands_mut(init_state)
  /\ cmds.outstanding
  /\ LET method == cmds.items[cmds.cursor + 1] IN
     /\ Becomes(on_response(Self, method, "ok", "F0", "U0"))
     /\ acked' = acked \cup {method}
  /\ out' = Idle
  /\ UNCHANGED << call, handler >>
  /\ UNCHANGED << msgs, init_sent, timeouts, cmds_yielded, nav_since,
                  late_chain >>

\* The Handler sets the session id when Target.attachToTarget is answered.
AttachResponse ==
  /\ init_state # "AttachToTarget"
  /\ session_id = NoSession
  /\ SetSessionId

\* The browser answers Page.getFrameTree with a tree whose root frame carries
\* no url (Frame.url is optional).
AnswerBareFrameTree ==
  /\ commands_mut(init_state)
  /\ cmds.outstanding
  /\ cmds.items[cmds.cursor + 1] = GetFrameTree
  /\ \E root \in FrameIds :
       Becomes(on_response(Self, GetFrameTree, "ok", root, NoUrl))
  /\ acked' = acked \cup {GetFrameTree}
  /\ out' = Idle
  /\ UNCHANGED << call, handler >>
  /\ UNCHANGED << msgs, init_sent, timeouts, cmds_yielded, nav_since,
                  late_chain >>

\* Time passes, up to the deadline of the init chain; it is recorded whether
\* the deadline is reached with a request of the chain unanswered.
TickChain ==
  /\ commands_mut(init_state)
  /\ cmds.deadline > 0
  /\ timeouts < MaxTimeouts
  /\ Becomes(Ticked(Self, cmds.deadline))
  /\ late_chain' = (late_chain \/ cmds.cursor < Len(cmds.items))
  /\ out' = Idle
  /\ UNCHANGED << call, handler >>
  /\ UNCHANGED << msgs, init_sent, acked, timeouts, cmds_yielded, nav_since >>

\* The target, the Handler's calls that initialize it, the browser's
\* responses and events, and the clock.
Next ==
  \/ Initialize
  \/ SetInitiator
  \/ SetSessionId
  \/ GetOrCreatePage
  \/ Poll
  \/ OnResponse
  \/ OnEvent
  \/ Tick

Spec == Init /\ [][Next]_vars

\* The target with a Page obtained through get_or_create_page: control
\* messages and navigations, with init requests that are answered before the
\* clock moves.
PageNext ==
  \/ Initialize
  \/ AttachResponse
  \/ GetOrCreatePage
  \/ Poll
  \/ Answer
  \/ OnEvent
  \/ Goto
  \/ Submit
  \/ TickInitialized

PageSpec == Init /\ [][PageNext]_vars

\* A Page's queries against a target whose main frame may come without a
\* url: initialization, the Page's messages and the browser's frame events.
QueryNext ==
  \/ Initialize
  \/ AttachResponse
  \/ GetOrCreatePage
  \/ Poll
  \/ Answer
  \/ AnswerBareFrameTree
  \/ OnEvent
  \/ Submit

QuerySpec == Init /\ [][QueryNext]_vars

\* Target::on_event(event), for an event of any kind: the FrameManager's, the
\* NetworkManager's and one of neither ("TargetTargetCreated" stands for the
\* CdpEvent variants the match leaves to `_`).
ReceiveEvent ==
  \E name \in FrameManagerEvents \cup NetworkManagerEvents
                \cup {"TargetTargetCreated"},
     frame \in FrameIds, url \in Urls, loader \in 0..MaxNavigated :
    LET ev == [ name |-> name, frame |-> frame, url |-> url, loader |-> loader ]
        hit == name = "PageFrameNavigated" /\ frame = frame_manager.main IN
    /\ hit => frame_manager.loader < MaxNavigated
    /\ name \notin { "PageFrameNavigated", "PageNavigatedWithinDocument" }
         => url = "U0"
    /\ name # "PageLifecycleEvent" => loader = 0
    /\ name \notin FrameManagerEvents => frame = "F0"
    /\ Becomes(on_event(Self, ev))
    /\ call' = [ fn |-> "on_event",
                 manager |-> IF name \in FrameManagerEvents THEN "FrameManager"
                             ELSE IF name \in NetworkManagerEvents
                               THEN "NetworkManager" ELSE "none",
                 nth |-> IF call.fn = "on_event" THEN 1 - call.nth ELSE 1 ]
    /\ nav_since' = [ i \in MsgIds |->
                        IF hit /\ i <= Len(msgs) /\ replies[i] = << >>
                          THEN url ELSE nav_since[i] ]
    /\ out' = Idle
    /\ UNCHANGED handler
    /\ UNCHANGED << msgs, init_sent, acked, timeouts, cmds_yielded,
                    late_chain >>

\* The browser's events of every kind, reaching a target at any stage of its
\* initialization and while it serves the Page it handed to its initiator.
EventNext ==
  \/ Initialize
  \/ SetInitiator
  \/ AttachResponse
  \/ Poll
  \/ Answer
  \/ Submit
  \/ ReceiveEvent

EventSpec == Init /\ [][EventNext]_vars

\* Initialization against a browser that answers: the Handler keeps polling,
\* the attach response and every init response arrive eventually; nothing
\* is promised about when the clock moves.
LiveNext ==
  \/ Initialize
  \/ AttachResponse
  \/ Poll
  \/ Answer
  \/ TickChain

LiveSpec ==
  /\ Init
  /\ [][LiveNext]_vars
  /\ WF_vars(Poll)
  /\ WF_vars(AttachResponse)
  /\ WF_vars(Answer)

\* A target that is not answered: the Handler's calls, a Page's messages
\* and the browser's events reach it, before and after it is asked to
\* initialize.
StallNext ==
  \/ Initialize
  \/ SetInitiator
  \/ SetSessionId
  \/ GetOrCreatePage
  \/ Submit
  \/ Goto
  \/ Poll
  \/ OnEvent

StallSpec == Init /\ [][StallNext]_vars

\* Page::goto(params): the NavigateParams are sent as a Command through the
\* control channel and the future awaits the command's response.
PageGoto ==
  \E url \in Urls :
    /\ page
    /\ call = NoCall
    /\ Count(msgs, {"Command"}) < MaxCommands
    /\ Becomes([Self EXCEPT !.rx = Append(@, [kind |-> "Command", id |-> Len(msgs) + 1])])
    /\ msgs' = Append(msgs, "Command")
    /\ call' = [ fn |-> "goto", msg |-> Len(msgs) + 1, url |-> url,
                 result |-> "Pending" ]
    /\ out' = Idle
    /\ UNCHANGED << init_sent, acked, timeouts, cmds_yielded, nav_since,
                    late_chain, handler >>

\* The response to a Command the target yielded arrives: the Handler delivers
\* it to the command's reply channel and calls Target::on_response; a goto
\* that awaited it resolves, Ok unless the result carries an error text.
Respond ==
  \E i \in 1..Len(msgs), error_text \in BOOLEAN :
    /\ \E k \in 1..Len(cmds_yielded) : cmds_yielded[k] = i
    /\ replies[i] = << >>
    /\ Becomes(on_response([Self EXCEPT !.replies = Send(@, i, "Response")],
                           UserMethod, "ok", "F0", "U0"))
    /\ call' = IF call.fn = "goto" /\ call.msg = i
                 THEN [call EXCEPT !.result = IF error_text THEN "Err" ELSE "Ok"]
                 ELSE call
    /\ out' = Idle
    /\ UNCHANGED << history, handler >>

\* An initialized target whose Page navigates with Page::goto, against a
\* browser that answers and emits frame events.
GotoNext ==
  \/ Initialize
  \/ AttachResponse
  \/ GetOrCreatePage
  \/ Poll
  \/ Answer
  \/ OnEvent
  \/ PageGoto
  \/ Respond

GotoSpec == Init /\ [][GotoNext]_vars

\* The CallIds a caller passes.
CallIds == 0..MaxCalls

\* Command::create_call(call_id) on some command.
CreateCall ==
  \E identifier \in Identifiers, params \in ParamValues, call_id \in CallIds :
    LET cmd == [ identifier |-> identifier, params |-> params ] IN
    /\ call' = [ fn |-> "create_call", cmd |-> cmd, call_id |-> call_id,
                 ret |-> create_call(cmd, call_id) ]
    /\ UNCHANGED << target, handler >>

\* serde_json::from_str::<Message>(text) on an inbound frame, and
\* Event::session_id on the event it gives.
FromJson ==
  \E json \in JsonMessages :
    LET message == DeserializeMessage(json) IN
    /\ call' = [ fn |-> "from_json", json |-> json, ret |-> message,
                 session_id |-> IF message.variant = "Event"
                                  THEN event_session_id(message) ELSE Absent ]
    /\ UNCHANGED << target, handler >>

\* Page::set_cookie(cookie) on a page whose url() and commands resolve one
\* way or the other.
SetCookie ==
  \E cookie_url \in CookieUrls \cup {NoneUrl},
     url_result \in ExecuteResults, page_url \in CookieUrls \cup {NoneUrl},
     delete_result \in ExecuteResults, set_result \in ExecuteResults :
    /\ call' = [ fn |-> "set_cookie", cookie_url |-> cookie_url,
                 url_result |-> url_result, page_url |-> page_url,
                 delete_result |-> delete_result, set_result |-> set_result,
                 ret |-> set_cookie(cookie_url, url_result, page_url,
                                    delete_result, set_result) ]
    /\ UNCHANGED << target, handler >>

\* Clients calling the wire types and the Page's cookie methods.
LibNext ==
  \/ CreateCall
  \/ FromJson
  \/ SetCookie

LibSpec == Init /\ [][LibNext]_vars

\* The Handler dispatches a user command (with its waiter) or an internal
\* request.
Dispatch ==
  \E waiter \in Waiters \cup {NoWaiter} :
    /\ handler.transport = "open"
    /\ handler.next_id < MaxCalls
    /\ waiter # NoWaiter => handler.assigned[waiter] = NoId
    /\ handler' = submit(handler, waiter)
    /\ UNCHANGED << target, call >>

\* A Response arrives from the transport, with any id and outcome.
HandlerResponse ==
  \E id \in CallIds, result \in {"result", "error"} :
    /\ handler.transport = "open"
    /\ handler' = on_handler_response(handler, [ id |-> id, result |-> result ])
    /\ UNCHANGED << target, call >>

\* The transport closes.
TransportClose ==
  /\ handler.transport = "open"
  /\ handler' = on_transport_closed(handler)
  /\ UNCHANGED << target, call >>

\* The Handler's table of calls, against a transport that answers in any
\* order, answers ids nobody waits for, and closes at any time.
HandlerNext ==
  \/ Dispatch
  \/ HandlerResponse
  \/ TransportClose

HandlerSpec == Init /\ [][HandlerNext]_vars

\* Target::on_response(resp, method) called by the Handler, with the call
\* on record: its method, its outcome, the frame tree a parseable result of
\* Page.getFrameTree holds, and the parity of the calls so far, which tells a
\* new call from the record of the last one.
ReceiveResponse ==
  \E method \in ResponseMethods, result \in {"ok", "error", "bad"},
     root \in FrameIds, url \in Urls :
    /\ (method # GetFrameTree \/ result # "ok") => (root = "F0" /\ url = "U0")
    /\ Becomes(on_response(Self, method, result, root, url))
    /\ call' = [ fn |-> "on_response", method |-> method, result |-> result,
                 root |-> root, url |-> url,
                 nth |-> IF call.fn = "on_response" THEN 1 - call.nth ELSE 1 ]
    /\ acked' = IF \E i \in 1..Len(init_sent) : init_sent[i] = method
                  THEN acked \cup {method} ELSE acked
    /\ out' = Idle
    /\ UNCHANGED << msgs, init_sent, timeouts, cmds_yielded, nav_since,
                    late_chain, handler >>

\* A target that initializes against a browser whose responses arrive with
\* any method and any outcome, while the clock runs.
ResponseNext ==
  \/ Initialize
  \/ AttachResponse
  \/ Poll
  \/ ReceiveResponse
  \/ Tick

ResponseSpec == Init /\ [][ResponseNext]_vars

\* A target created on behalf of a caller that awaits its Page: the browser
\* answers the init requests and emits frame events, and the Handler keeps
\* polling.
InitiatorNext ==
  \/ Initialize
  \/ SetInitiator
  \/ AttachResponse
  \/ Poll
  \/ Answer
  \/ OnEvent

InitiatorSpec ==
  /\ Init
  /\ [][InitiatorNext]_vars
  /\ WF_vars(Poll)

\* -------------------------------------------------------------- properties
\* The events poll can yield towards the browser.
Outbound == { "Request", "Command", "NavigationRequest" }

\* C1: over any sequence of calls init_state stays where it is or moves to the
\* next stage of AttachToTarget -> InitializingFrame -> InitializingNetwork ->
\* InitializingPage -> InitializingEmulation -> Initialized: no stage is
\* skipped, none is re-entered and Initialized is never left.
InitStateMonotone ==
  [][StageIndex(init_state') \in
       { StageIndex(init_state), StageIndex(init_state) + 1 }]_vars

\* C1's case: the target went through every stage, one request at a time.
InitStateMonotoneReached ==
  /\ init_state = "Initialized"
  /\ init_sent = InitOrder
  /\ timeouts = 0

\* C2: the (k+1)-th init Request is not yielded before on_response was
\* called with the method of the k-th one.
InitRequestsAwaitResponse ==
  \A k \in 2..Len(init_sent) : init_sent[k - 1] \in acked

\* C3: only Target.attachToTarget is requested without a session id; every
\* other Request poll yields carries the target's session id, which is set.
RequestsCarrySession ==
  out.kind = "Request" =>
    IF out.method = AttachToTarget
      THEN out.session_id = NoSession
      ELSE session_id # NoSession /\ out.session_id = session_id

\* C3's case: an init request yielded after the session id was replaced.
RequestsCarrySessionReached ==
  /\ out.kind = "Request"
  /\ out.method = "Page.getFrameTree"
  /\ out.session_id = "S2"

\* C4: when poll yields RequestTimeout the target is marked closed.
TimeoutMarksClosed ==
  out.kind = "RequestTimeout" => is_closed

\* C5: once poll has yielded RequestTimeout, init_state stays where it is
\* and no later poll yields a Request, Command or NavigationRequest.
RequestTimeoutTerminal ==
  [][timeouts > 0 =>
       /\ init_state' = init_state
       /\ out'.kind \notin Outbound]_vars

\* C6: a stage is left only when every command of its chain was requested
\* and answered, so an Initialized target had all of them answered.
StagesLeftCompleted ==
  \A i \in 1..Len(Stages) :
    i < StageIndex(init_state) =>
      \A k \in 1..Len(StageCommands(Stages[i])) :
        StageCommands(Stages[i])[k] \in acked

\* The target is Initialized with F0 as its main frame.
InitializedAtF0 ==
  init_state = "Initialized" /\ frame_manager.main = "F0"

\* C7: when the attach response sets the session id and every init request
\* is answered before the deadline of its chain (Page.getFrameTree with a
\* tree rooted at F0), fair polling leads to Initialized with main frame F0,
\* and no RequestTimeout is yielded.
InitCompletesInTime ==
  /\ [](timeouts > 0 => late_chain)
  /\ initialize ~> (late_chain \/ InitializedAtF0)

\* C7's case: every request was answered in time and the target is
\* Initialized.
InitCompletesInTimeReached ==
  /\ InitializedAtF0
  /\ init_sent = InitOrder
  /\ ~late_chain
  /\ timeouts = 0

\* The ids of the Commands in a queue of messages or events, in order.
RECURSIVE CommandIds(_)
CommandIds(q) ==
  IF q = << >> THEN << >>
  ELSE (IF Head(q).kind = "Command" THEN << Head(q).id >> ELSE << >>)
         \o CommandIds(Tail(q))

\* The ids of the Commands the Page submitted, in submission order.
RECURSIVE Submitted(_)
Submitted(n) ==
  IF n = 0 THEN << >>
  ELSE Submitted(n - 1) \o (IF msgs[n] = "Command" THEN << n >> ELSE << >>)

\* C8: the Commands poll yielded, followed by those queued and those still
\* in the channel, are the Commands submitted, in submission order: none is
\* dropped, duplicated or reordered.
CommandsFifo ==
  cmds_yielded \o CommandIds(queued_events) \o CommandIds(rx)
    = Submitted(Len(msgs))

\* C8's case: all Commands were yielded, with a control query submitted
\* between them and a navigation requested meanwhile.
CommandsFifoReached ==
  /\ cmds_yielded = << 1, 3 >>
  /\ frame_manager.nav_id > 0

\* The control messages of kind WaitForNavigation sent so far.
Waits == { i \in 1..Len(msgs) : msgs[i] = "WaitForNavigation" }

\* The ids a sequence holds.
Range(q) == { q[i] : i \in 1..Len(q) }

WaitForNavigationFresh ==
  \A i \in Waits :
    replies[i] # << >> =>
      nav_since[i] # NoUrl /\ replies[i] = << nav_since[i] >>

\* C11: while `initialize` is false the machine stalls in AttachToTarget: a
\* poll returns no event, leaves init_state at AttachToTarget and consumes
\* no control message and no queued event; whatever else is called, the
\* state stays AttachToTarget.  The flag is set by initialize() and
\* set_initiator() only, and once set it is never cleared.
StallsUntilInitialize ==
  [][/\ ~initialize =>
          /\ init_state' = "AttachToTarget"
          /\ out' # Idle =>
               /\ out' = NoEvent
               /\ rx' = rx
               /\ queued_events' = queued_events
               /\ wait_until_frame_loaded' = wait_until_frame_loaded
               /\ replies' = replies
               /\ init_sent' = init_sent
               /\ cmds_yielded' = cmds_yielded
     /\ initialize => initialize'
     /\ (~initialize /\ initialize') => (Initialize \/ SetInitiator)]_vars

\* C11's case: a target that was not asked to initialize was polled with a
\* control message waiting, and returned nothing.
StallsUntilInitializeReached ==
  /\ ~initialize
  /\ rx # << >>
  /\ page
  /\ out = NoEvent
  /\ init_state = "AttachToTarget"

\* C12 as stated: init_state remains AttachToTarget until the Handler has set
\* the target's session_id.
AttachAwaitsSession ==
  init_state # "AttachToTarget" => session_id # NoSession

\* C12, amended: in AttachToTarget a poll emits the Target.attachToTarget
\* request, without a session, and moves to InitializingFrame at once; in
\* InitializingFrame a poll yields nothing and leaves the stage and its chain
\* alone for as long as session_id is not set.
AttachThenAwaitSession ==
  [][/\ (initialize /\ init_state = "AttachToTarget" /\ out' # Idle) =>
          /\ out' = Event("Request", AttachToTarget, NoSession, 0)
          /\ init_state' = "InitializingFrame"
     /\ (init_state = "InitializingFrame" /\ session_id = NoSession
           /\ out' # Idle) =>
          /\ out' = NoEvent
          /\ init_state' = "InitializingFrame"
          /\ cmds' = cmds
          /\ init_sent' = init_sent]_vars

\* C12's case: the attach request was emitted and the target, polled again
\* before the Handler set its session, waits in InitializingFrame.
AttachThenAwaitSessionReached ==
  /\ init_state = "InitializingFrame"
  /\ session_id = NoSession
  /\ out = NoEvent
  /\ init_sent = << >>

\* C13: when a target suffers an init timeout its pending waiters are failed
\* with a deadline error, not left pending: the page-creation initiator that
\* is pending when RequestTimeout is yielded is no longer pending afterwards.
\* (The initiator is a private field that only poll and set_initiator touch,
\* so what the target's caller does with the RequestTimeout cannot reach it.)
InitTimeoutFailsWaiters ==
  [][(initiator /\ timeouts' > timeouts) => ~initiator']_vars

\* C14: Page::goto resolves Ok only after the requested url is fully loaded:
\* at the step that resolves it the main frame is at the requested url and
\* its load lifecycle event was seen.
GotoResolvesLoaded ==
  [][(call.fn = "goto" /\ call.result = "Pending" /\ call'.result = "Ok") =>
       /\ MainFrameLoaded(frame_manager')
       /\ frame_manager'.url = call.url]_vars

\* The url Page::set_cookie validates: the cookie's, or the page's when the
\* cookie has none.
EffectiveUrl(c) ==
  IF c.cookie_url # NoneUrl THEN c.cookie_url ELSE c.page_url

\* C15: Page::set_cookie fails before any DeleteCookies or SetCookies command
\* is issued exactly when the url it validates is about:blank or starts with
\* data:; every other url passes validation and the commands are issued.
SetCookieRejectsBlankAndData ==
  (/\ call.fn = "set_cookie"
   /\ call.cookie_url = NoneUrl => (call.url_result = "Ok" /\ call.page_url # NoneUrl))
  => (call.ret.issued = << >>
        <=> (EffectiveUrl(call) = AboutBlank \/ StartsWith(EffectiveUrl(call), DataPrefix)))

\* C16: the MethodCall built by create_call(call_id) has id = call_id and as
\* method the fully qualified Domain.method identifier of the command.
CreateCallQualified ==
  call.fn = "create_call" =>
    /\ call.ret.id = call.call_id
    /\ call.ret.method = call.cmd.identifier

\* C17: an inbound message that is classified is a Response if and only if
\* it has an `id` member and an Event if and only if it has none, whatever
\* other members (method, params, result, error) it has.
MessageVariantById ==
  (call.fn = "from_json" /\ call.ret # DataError) =>
    /\ call.ret.variant = "Response" <=> call.json.id # NoId
    /\ call.ret.variant = "Event" <=> call.json.id = NoId

\* C18: Event::session_id returns the sessionId of the event's envelope (none
\* when the envelope has none).
EventSessionFromEnvelope ==
  (call.fn = "from_json" /\ call.ret.variant = "Event") =>
    call.session_id = call.json.sessionId

\* C19: the CallIds one Handler allocates are pairwise distinct and strictly
\* increasing in dispatch order, and a response reaches only the waiter
\* registered under its id: a waiter receives at most one result, and a
\* response it receives carries the id the waiter was registered under,
\* whatever the order of the responses and whatever ids nobody waits for.
ResponsesReachTheirWaiter ==
  /\ \A i \in 1..Len(handler.sent) : \A j \in 1..Len(handler.sent) :
       i < j => handler.sent[i] < handler.sent[j]
  /\ \A w \in Waiters :
       /\ Len(handler.results[w]) <= 1
       /\ handler.results[w] # << >> =>
            /\ handler.assigned[w] # NoId
            /\ handler.results[w][1] # TransportClosed =>
                 handler.results[w][1].id = handler.assigned[w]
  /\ \A p \in handler.pending : \A q \in handler.pending :
       (p.waiter = q.waiter /\ p.waiter # NoWaiter) => p = q

\* C19's case: of two commands in flight the later one was answered first and
\* its waiter holds its response, while the earlier one's waiter still waits.
ResponsesReachTheirWaiterReached ==
  \E p \in handler.pending : \E w \in Waiters :
    /\ p.waiter \in Waiters
    /\ p.waiter # w
    /\ handler.results[w] # << >>
    /\ handler.results[w][1] # TransportClosed
    /\ handler.results[w][1].id > p.id

\* C20: when the transport closes, every waiter pending at that moment is
\* resolved with the transport-closed error, exactly once; no other waiter's
\* result changes, nothing stays pending and the Handler terminates, and
\* nothing is delivered afterwards.
TransportCloseFailsPending ==
  [][/\ (handler.transport = "open" /\ handler'.transport = "closed") =>
          /\ \A w \in Waiters :
               IF \E p \in handler.pending : p.waiter = w
                 THEN handler'.results[w] = << TransportClosed >>
                 ELSE handler'.results[w] = handler.results[w]
          /\ handler'.pending = {}
          /\ handler'.terminated
     /\ handler.transport = "closed" => handler' = handler]_vars

\* C20's case: the transport closed with two commands in flight and one
\* answered before: the two waiters hold the transport-closed error, the
\* third its response, and the Handler has terminated.
TransportCloseFailsPendingReached ==
  /\ handler.terminated
  /\ handler.pending = {}
  /\ \E v \in Waiters : \E w \in Waiters :
       /\ v # w
       /\ handler.results[v] = << TransportClosed >>
       /\ handler.results[w] = << TransportClosed >>
  /\ \E w \in Waiters :
       handler.results[w] # << >> /\ handler.results[w][1] # TransportClosed

\* The NavigationResult of a navigation that ran into its deadline.
NavigationTimedOut(id) == Event("NavigationResult", "Err", NoSession, id)

\* C21: a navigation timeout is isolated.  A pass of an Initialized target
\* that finds its navigation in flight past the deadline, the main frame not
\* loaded under a new loader, resolves the navigation with a deadline error as
\* a NavigationResult (yielded, or queued behind what is yielded first); a
\* poll that yields it leaves the target Initialized and not closed, yields no
\* RequestTimeout, and a pass that finds a Command in the channel and nothing
\* queued still yields a Command.
NavigationTimeoutIsolated ==
  [][/\ (/\ initialize /\ init_state = "Initialized" /\ out' # Idle
         /\ queued_events = << >>
         /\ frame_manager.nav = "inflight"
         /\ Now >= frame_manager.nav_deadline
         /\ ~(MainFrameLoaded(frame_manager)
                /\ frame_manager.loader # frame_manager.nav_loader)) =>
          /\ frame_manager'.nav = "none"
          /\ \/ out' = NavigationTimedOut(frame_manager.nav_id)
             \/ NavigationTimedOut(frame_manager.nav_id) \in Range(queued_events')
     /\ (out'.kind = "NavigationResult" /\ out'.method = "Err") =>
          /\ init_state' = "Initialized"
          /\ ~is_closed'
          /\ timeouts' = timeouts
          /\ cmds' = cmds
     /\ (/\ initialize /\ init_state = "Initialized" /\ out' # Idle
         /\ queued_events = << >> /\ page /\ CommandIds(rx) # << >>) =>
          /\ out'.kind = "Command"
          /\ out'.id = Head(CommandIds(rx))]_vars

\* C21's case: the navigation ran into its deadline with no frameNavigated
\* seen, its NavigationResult was yielded, and the target, still Initialized
\* and not closed, has just yielded a Command.
NavigationTimeoutIsolatedReached ==
  /\ init_state = "Initialized"
  /\ ~is_closed
  /\ timeouts = 0
  /\ frame_manager.nav_id > 0
  /\ frame_manager.nav = "none"
  /\ frame_manager.loader = 0
  /\ queued_events = << >>
  /\ out.kind = "Command"

\* C22: while the target is in a state other than Initialized, a poll yields
\* no Command, NavigationRequest or NavigationResult and consumes nothing
\* from the Page's channel: the channel only grows, nothing is answered,
\* queued or parked.  The pass of an Initialized target that starts with
\* nothing queued reads the whole channel: its Commands are yielded or queued
\* in the order submitted, none dropped, and every query is answered or, for
\* a WaitForNavigation, parked.
InitDefersPageMessages ==
  [][/\ init_state' # "Initialized" =>
          /\ Len(rx') >= Len(rx)
          /\ SubSeq(rx', 1, Len(rx)) = rx
          /\ replies' = replies
          /\ queued_events' = queued_events
          /\ wait_until_frame_loaded' = wait_until_frame_loaded
          /\ cmds_yielded' = cmds_yielded
          /\ out'.kind \notin { "Command", "NavigationRequest", "NavigationResult" }
     /\ (/\ out' # Idle /\ init_state' = "Initialized" /\ page'
         /\ queued_events = << >>) =>
          /\ rx' = << >>
          /\ cmds_yielded' \o CommandIds(queued_events')
               = cmds_yielded \o CommandIds(rx)
          /\ \A k \in 1..Len(rx) :
               rx[k].kind # "Command" =>
                 \/ Len(replies'[rx[k].id]) = 1
                 \/ /\ rx[k].kind = "WaitForNavigation"
                    /\ rx[k].id \in Range(wait_until_frame_loaded')]_vars

\* C22's case: a Page has put its commands and a query on the channel and a
\* navigation was requested while the target initializes; the poll yields the
\* next init request and the channel is as it was.
InitDefersPageMessagesReached ==
  /\ init_state = "InitializingPage"
  /\ out.kind = "Request"
  /\ Len(rx) = MaxCommands + MaxQueries
  /\ frame_manager.nav = "requested"

\* The step is a call of on_response (its record is new).
Responded == call'.fn = "on_response" /\ call' # call

\* The method of the response of this step is the one the init chain has
\* outstanding.
Matching ==
  /\ commands_mut(init_state)
  /\ cmds.outstanding
  /\ cmds.cursor < Len(cmds.items)
  /\ cmds.items[cmds.cursor + 1] = call'.method

\* C23: on_response never changes init_state; with a method other than the
\* one the init chain has outstanding, and in AttachToTarget and Initialized,
\* it leaves the chain as it is; with the outstanding method it moves the
\* cursor by exactly one and clears the outstanding marker; and within a
\* stage the cursor moves in no other way.
ResponseAdvancesMatching ==
  [][/\ Responded =>
          /\ init_state' = init_state
          /\ IF Matching
               THEN cmds' = [cmds EXCEPT !.cursor = cmds.cursor + 1,
                                         !.outstanding = FALSE]
               ELSE cmds' = cmds
     /\ (init_state' = init_state /\ cmds'.cursor # cmds.cursor) =>
          (Responded /\ Matching)]_vars

\* C23's case: Page.getFrameTree was answered while Page.enable was
\* outstanding, and the chain still waits for Page.enable.
ResponseAdvancesMatchingReached ==
  /\ call.fn = "on_response"
  /\ call.method = GetFrameTree
  /\ init_state = "InitializingFrame"
  /\ cmds.cursor = 0
  /\ cmds.outstanding
  /\ out = Idle

\* C24: on_response advances the init chain on the method alone: a response
\* that carries a protocol error, or no parseable result, leaves the chain
\* and the init state exactly as a successful response with that method
\* would, so for the outstanding method the cursor moves by one; it yields no
\* RequestTimeout and does not close the target.
ResponseOutcomeIgnored ==
  [][(Responded /\ call'.result # "ok") =>
       /\ cmds' = on_response(Self, call'.method, "ok", call'.root, call'.url).cmds
       /\ init_state' = init_state
       /\ Matching => (cmds'.cursor = cmds.cursor + 1 /\ ~cmds'.outstanding)
       /\ is_closed' = is_closed
       /\ timeouts' = timeouts
       /\ out'.kind # "RequestTimeout"]_vars

\* C24's case: Page.enable, the outstanding request, was answered with a
\* protocol error and the target went on to request Page.getFrameTree.
ResponseOutcomeIgnoredReached ==
  /\ call.fn = "on_response"
  /\ call.method = "Page.enable"
  /\ call.result = "error"
  /\ init_state = "InitializingFrame"
  /\ cmds.cursor = 1
  /\ out.kind = "Request"
  /\ out.method = GetFrameTree
  /\ ~is_closed
  /\ timeouts = 0

\* C25: a Page.getFrameTree response with a parseable result installs the
\* returned tree in the FrameManager, its root becoming the main frame (with
\* the root's url); a Page.getFrameTree response with an error or without a
\* parseable result, and a response to any other method, leaves the
\* FrameManager as it is.
FrameTreeInstalled ==
  [][Responded =>
       IF call'.method = GetFrameTree /\ call'.result = "ok"
         THEN /\ frame_manager'.main = call'.root
              /\ frame_manager'.url = call'.url
              /\ frame_manager' = on_frame_tree(frame_manager, call'.root, call'.url)
         ELSE frame_manager' = frame_manager]_vars

\* C25's case: Page.getFrameTree, the outstanding request, was answered with
\* a tree rooted at F1: F1 is the main frame and the chain has moved on.
FrameTreeInstalledReached ==
  /\ call.fn = "on_response"
  /\ call.method = GetFrameTree
  /\ call.result = "ok"
  /\ call.root = "F1"
  /\ frame_manager.main = "F1"
  /\ init_state = "InitializingFrame"
  /\ cmds.cursor = 2

\* The target can hand its Page to the initiator: it is Initialized, has a
\* session id and its main frame is loaded.
PageReady ==
  /\ init_state = "Initialized"
  /\ session_id # NoSession
  /\ MainFrameLoaded(frame_manager)

\* C26: the initiator is sent Ok(Page) at most once, and only by a poll of a
\* target that is Initialized, has a session id and a loaded main frame, which
\* then holds a page handle and no initiator; every other poll leaves the
\* initiator where it is; and under fair polling an initiator held while the
\* three conditions hold is resolved, unless they cease to hold first.
InitiatorResolvedWhenReady ==
  /\ [][/\ page_sent' # page_sent =>
             /\ out' # Idle
             /\ initiator /\ ~initiator'
             /\ page_sent = 0 /\ page_sent' = 1
             /\ init_state' = "Initialized"
             /\ session_id # NoSession
             /\ MainFrameLoaded(frame_manager)
             /\ page'
        /\ (out' # Idle /\ page_sent' = page_sent) => initiator' = initiator
        /\ (out' # Idle /\ initiator /\ initialize /\ PageReady) =>
             page_sent' = page_sent + 1]_vars
  /\ (initiator /\ PageReady) ~> (~initiator \/ ~PageReady)

\* C26's case: the caller's initiator was sent the Page by a poll of the
\* Initialized target after the main frame's load event.
InitiatorResolvedWhenReadyReached ==
  /\ page_sent = 1
  /\ ~initiator
  /\ PageReady
  /\ out = NoEvent

\* C27: over any sequence of polls the target emits the Target.attachToTarget
\* request exactly once, on the first poll after initialize is set, and never
\* again, whether the attach response is late or never arrives: a poll emits
\* it if and only if the target was asked to initialize and is in
\* AttachToTarget, the poll that emits it leaves AttachToTarget, and no call
\* brings the target back there.
AttachRequestedOnce ==
  [][/\ out' # Idle =>
          ((out'.kind = "Request" /\ out'.method = AttachToTarget)
             <=> (initialize /\ init_state = "AttachToTarget"))
     /\ (out'.kind = "Request" /\ out'.method = AttachToTarget) =>
          init_state' # "AttachToTarget"
     /\ init_state # "AttachToTarget" => init_state' # "AttachToTarget"]_vars

\* C27's case: the attach request was emitted, the response to it has not
\* arrived and the target, polled again after the frame chain's deadline,
\* yields nothing.
AttachRequestedOnceReached ==
  /\ init_state = "InitializingFrame"
  /\ session_id = NoSession
  /\ cmds.deadline = Now
  /\ out = NoEvent

\* C28: in InitializingFrame with session_id unset a poll yields nothing and
\* changes nothing, whatever the clock says: the frame chain is not polled,
\* so its deadline, which runs from the poll that emitted the attach request,
\* can pass without a RequestTimeout; as long as there is no session no init
\* command and no timeout has been yielded and the target is in one of the
\* two first states.  Once there is a session, a poll that finds the deadline
\* of the untouched frame chain reached yields RequestTimeout, and no frame
\* init command has been or is emitted.
SessionlessFrameStageIgnoresClock ==
  [][/\ (init_state = "InitializingFrame" /\ session_id = NoSession
           /\ out' # Idle) =>
          /\ out' = NoEvent
          /\ Self' = Self
          /\ history' = history
     /\ session_id' = NoSession =>
          /\ init_state' \in {"AttachToTarget", "InitializingFrame"}
          /\ init_sent' = << >>
          /\ timeouts' = 0
     /\ (init_state = "InitializingFrame" /\ session_id # NoSession
           /\ init_sent = << >> /\ ~cmds.failed /\ Now >= cmds.deadline
           /\ out' # Idle) =>
          /\ out'.kind = "RequestTimeout"
          /\ init_sent' = << >>
          /\ init_state' = "InitializingFrame"]_vars

\* C28's case: the session id came after the frame chain's deadline, and the
\* poll that followed yielded RequestTimeout before any frame init command.
SessionlessFrameStageIgnoresClockReached ==
  /\ init_state = "InitializingFrame"
  /\ session_id # NoSession
  /\ out.kind = "RequestTimeout"
  /\ init_sent = << >>
  /\ cmds.cursor = 0

\* C29: a poll of an Initialized target whose main frame is loaded resolves
\* every parked WaitForNavigation sender, and every WaitForNavigation it reads
\* from the channel, with the main frame's current url, and with NotFound
\* when that frame has no url; a WaitForNavigation read while the frame is
\* not loaded is parked unanswered.  A MainFrame or Url query read in a pass
\* is answered in that pass: with the main frame's id, or its url, as they
\* are, and with None when there is no main frame, or no url.
QueriesAnsweredOrNotFound ==
  [][(out' # Idle /\ init_state = "Initialized") =>
       LET fm == frame_manager
           w == wait_until_frame_loaded
           isLoaded == fm.main # NoFrame /\ fm.loaded
           answer == IF fm.url = NoUrl THEN NotFound ELSE fm.url IN
       /\ isLoaded =>
            /\ wait_until_frame_loaded' = << >>
            /\ \A k \in 1..Len(w) : replies'[w[k]] = << answer >>
       /\ (queued_events = << >> /\ page') =>
            \A k \in 1..Len(rx) :
              LET m == rx[k] IN
              /\ m.kind = "MainFrame" => replies'[m.id] = << fm.main >>
              /\ m.kind = "Url" =>
                   replies'[m.id] =
                     << IF fm.main = NoFrame THEN NoUrl ELSE fm.url >>
              /\ m.kind = "WaitForNavigation" =>
                   IF isLoaded THEN replies'[m.id] = << answer >>
                   ELSE /\ replies'[m.id] = << >>
                        /\ m.id \in Range(wait_until_frame_loaded')]_vars

\* C29's case: the main frame, installed without a url, is loaded, and the
\* Page's WaitForNavigation was resolved with NotFound.
QueriesAnsweredOrNotFoundReached ==
  /\ frame_manager.main # NoFrame
  /\ frame_manager.loaded
  /\ frame_manager.url = NoUrl
  /\ \E i \in 1..Len(msgs) :
       msgs[i] = "WaitForNavigation" /\ replies[i] = << NotFound >>

\* The step is a call of on_event (its record is new).
EventReceived == call'.fn = "on_event" /\ call' # call

\* C30: a call of on_event leaves init_state, session_id, the initialize
\* flag, the queued outbound events and the parked waiters as they are; an
\* event of the FrameManager's set leaves the NetworkManager alone and one of
\* the NetworkManager's set the FrameManager; an event of neither set leaves
\* the whole target as it is.
EventsReachOneManager ==
  [][EventReceived =>
       /\ init_state' = init_state
       /\ session_id' = session_id
       /\ initialize' = initialize
       /\ queued_events' = queued_events
       /\ wait_until_frame_loaded' = wait_until_frame_loaded
       /\ call'.manager = "FrameManager" => network_manager' = network_manager
       /\ call'.manager = "NetworkManager" => frame_manager' = frame_manager
       /\ call'.manager = "none" => Self' = Self]_vars

\* C30's case: Network.requestWillBeSent reached a target that has an event
\* queued and a waiter parked, and the NetworkManager took it.
EventsReachOneManagerReached ==
  /\ call.fn = "on_event"
  /\ call.manager = "NetworkManager"
  /\ network_manager # NetworkManagerDefault
  /\ init_state = "Initialized"
  /\ queued_events # << >>
  /\ wait_until_frame_loaded # << >>

\* The call of Page::set_cookie came past its validation: the url it
\* validates was there (the cookie's, or the one Page::url() resolved to) and
\* validate_cookie_url accepted it.
Validated(c) ==
  /\ c.cookie_url = NoneUrl => (c.url_result = "Ok" /\ c.page_url # NoneUrl)
  /\ validate_cookie_url(EffectiveUrl(c)) = "Ok"

\* The url the cookie of the call carries into its commands: its own, or for
\* a cookie without url the page's when that starts with http, else none.
CarriedUrl(c) ==
  IF c.cookie_url # NoneUrl THEN c.cookie_url
  ELSE IF StartsWith(c.page_url, HttpPrefix) THEN c.page_url
  ELSE NoneUrl

\* C31: a call of Page::set_cookie that is past validation issues
\* Network.deleteCookies first; Network.setCookies follows it only when
\* DeleteCookies resolved Ok, and the call then returns what SetCookies
\* resolved to; when DeleteCookies failed nothing else is issued and the call
\* returns the error.  Both commands carry the cookie's url, which for a
\* cookie without url is the page's only if that starts with http.
SetCookieDeletesThenSets ==
  (call.fn = "set_cookie" /\ Validated(call)) =>
    LET delete == [ method |-> "Network.deleteCookies", url |-> CarriedUrl(call) ]
        set == [ method |-> "Network.setCookies", url |-> CarriedUrl(call) ] IN
    IF call.delete_result = "Ok"
      THEN /\ call.ret.issued = << delete, set >>
           /\ call.ret.result = call.set_result
      ELSE /\ call.ret.issued = << delete >>
           /\ call.ret.result = "Err"

\* C31's case: a cookie without url on a page whose url passed validation
\* and does not start with http; DeleteCookies, issued without a url, failed
\* and the call returned the error with no SetCookies issued.
SetCookieDeletesThenSetsReached ==
  /\ call.fn = "set_cookie"
  /\ call.cookie_url = NoneUrl
  /\ Validated(call)
  /\ call.delete_result = "Err"
  /\ call.set_result = "Ok"
  /\ call.ret.result = "Err"
  /\ call.ret.issued = << [ method |-> "Network.deleteCookies", url |-> NoneUrl ] >>

====
